---------------------------- MODULE Spec2Model ----------------------------
(***************************************************************************)
(* A model of bbp-pi-parallel (src/bbp-pi-parallel-cpu.cpp, with the GPU   *)
(* variant src/bbp-pi-parallel-gpu.cpp sharing expoMod, the right portion, *)
(* bbpfCalc and toHex): one hexadecimal digit window of pi by the          *)
(* Bailey-Borwein-Plouffe formula.                                         *)
(*                                                                         *)
(* Numbers.  Exponents, moduli, term indices and table entries are the     *)
(* integers of the program.  A double holding a fraction is modelled as a  *)
(* fixed-point number: the integer v stands for v / Scale, and a division  *)
(* numerator/denominator truncates to that grid.  Sums, the mod-1          *)
(* reductions (x - floor(x), x - (int)x) and the multiplications by 16, 4  *)
(* and 2 are exact on the grid.                                            *)
(*                                                                         *)
(* Scaling.  ChunkTerms stands for the 100000 terms a CPU worker runs and  *)
(* UintBits for the 32 bits of the type uint in which line 96 compares     *)
(* k + 100000*noOfThreads with d; both are scaled down together so that    *)
(* rounds of workers, and the wrap of the product, happen with a handful   *)
(* of terms and workers.                                                   *)
(***************************************************************************)
EXTENDS Integers, Sequences, FiniteSets, TLC

\* ------------------------------------------------------------------ bounds
\* largest digit position d explored by the series specifications
MaxD == 9
\* largest worker count of Spec: ChunkTerms * MaxThreads + MaxD < UintMod
MaxThreads == 3
\* largest worker count of SpecWide: ChunkTerms * WideThreads reaches UintMod
WideThreads == 8
\* terms per worker (100000 in the source, scaled)
ChunkTerms == 2
\* width of uint (32 in the source, scaled)
UintBits == 4
\* hexadecimal digits kept after the point by the fixed-point grid
FracDigits == 2
\* largest exponent and modulus of the expoMod specification
MaxN == 20
MaxK == 12
\* number of sample points per series value in the bbpfCalc specification
CalcSteps == 5

\* -------------------------------------------------------- program constants
\* int pwrtbl[64]
TblLen == 64
\* for (int k = d; k <= d+100; k++)
RightBound == 100
\* for (int i = 0; i <= 8; i++)
LastHexIndex == 8
\* 10000000 - 1: the default digit position ("Accurate to 10000000")
MaxPlace == 10000000
\* floor(10^17 / 16^7): the threshold 1e-17 of "term < 1e-17", see TermBelow
ThreshInvQ7 == 372529029

UintMod == 2 ^ UintBits
Scale == 16 ^ FracDigits
JSet == {1, 4, 5, 6}

VARIABLES
  \* static locals of expoMod
  init, pwrtbl, highestpwrtblpwr,
  \* main / bbpf16jsd
  noOfThreads, d, j, pc, k, s, i1, i2, threadResults, workers, term,
  \* what has happened so far (history)
  evals, minExp, maxExp, folds, initBy, ub, brk, roundK, roundS, leftK,
  \* one expoMod call: arguments and result
  en, ek, er,
  \* bbpfCalc and toHex
  sj, result, pidec, hexIn, out, hi

statics == <<init, pwrtbl, highestpwrtblpwr>>
series == <<noOfThreads, d, j, pc, k, s, i1, i2, threadResults, workers, term>>
history == <<evals, minExp, maxExp, folds, initBy, ub, brk, roundK, roundS, leftK>>
call == <<en, ek, er>>
render == <<sj, result, pidec, hexIn, out, hi>>
vars == <<statics, series, history, call, render>>

\* ---------------------------------------------------------------- expoMod
\* The three statics as one value.
Statics(i, t, h) == [init |-> i, pwrtbl |-> t, highestpwrtblpwr |-> h]

\* lines 33-37: while (pwrtbl[h] < n) { pwrtbl[h+1] = pwrtbl[h]*2; h++; }
\* A write past pwrtbl[TblLen-1] is out of bounds (oob).
RECURSIVE GrowTable(_, _, _)
GrowTable(t, h, n) ==
  IF t[h] < n
    THEN IF h + 1 >= TblLen
           THEN [pwrtbl |-> t, highestpwrtblpwr |-> h, oob |-> TRUE]
           ELSE GrowTable([t EXCEPT ![h + 1] = t[h] * 2], h + 1, n)
    ELSE [pwrtbl |-> t, highestpwrtblpwr |-> h, oob |-> FALSE]

\* lines 30-39: while (!init) { pwrtbl[0] = 1; grow; init = 1; }
InitTable(st, n) ==
  IF st.init = 0
    THEN LET g == GrowTable([st.pwrtbl EXCEPT ![0] = 1], st.highestpwrtblpwr, n)
         IN [st |-> Statics(1, g.pwrtbl, g.highestpwrtblpwr), oob |-> g.oob]
    ELSE [st |-> st, oob |-> FALSE]

\* line 42: for (; pwrtbl[bitsneeded] < n; bitsneeded++);
\* The result TblLen says the scan ran off the end of the array.
RECURSIVE ScanTable(_, _, _)
ScanTable(t, n, b) ==
  IF b >= TblLen THEN TblLen
  ELSE IF t[b] < n THEN ScanTable(t, n, b + 1) ELSE b

\* line 43: if (pwrtbl[bitsneeded] != n) { bitsneeded--; }
BitsNeeded(t, n) ==
  LET b == ScanTable(t, n, 0)
  IN IF b >= TblLen THEN TblLen ELSE IF t[b] # n THEN b - 1 ELSE b

\* lines 55 and 62: r = r - static_cast<int>(r/k)*k, for r >= 0 and k >= 1
ModK(r, kk) == r % kk

\* the multiply-by-16 step with its reduction left out
Mul16NoMod(r, kk) == r * 16

\* lines 54-55: r = r * 16.0; r = r mod k
Mul16(r, kk) == ModK(r * 16, kk)

\* lines 61-62: r = r * r; r = r mod k
Square(r, kk) == ModK(r * r, kk)

\* lines 50-64: the loop over the binary positions, i = 0 .. bitsneeded
RECURSIVE BinaryLoop(_, _, _, _, _, _)
BinaryLoop(r, n, t, i, b, kk) ==
  IF i > b THEN r
  ELSE LET hit == n >= t
           r1 == IF hit THEN Mul16(r, kk) ELSE r
           n1 == IF hit THEN n - t ELSE n
           t1 == t \div 2
           r2 == IF t1 >= 1 THEN Square(r1, kk) ELSE r1
       IN BinaryLoop(r2, n1, t1, i + 1, b, kk)

\* lines 25-66: one whole call.  oob: the call read or wrote outside pwrtbl
\* (the scan ran past pwrtbl[TblLen-1], or bitsneeded became -1), which is
\* undefined behaviour; r is then meaningless.
expoMod(st, n, kk) ==
  LET it == InitTable(st, n)
      b == BitsNeeded(it.st.pwrtbl, n)
      bad == it.oob \/ b >= TblLen \/ b < 0
  IN [st |-> it.st,
      oob |-> bad,
      r |-> IF bad THEN 0 ELSE BinaryLoop(1, n, it.st.pwrtbl[b], 0, b, kk)]

\* 16^n mod k by n successive multiplications: the independent reference
RECURSIVE RefPowMod(_, _)
RefPowMod(n, kk) == IF n = 0 THEN 1 % kk ELSE (RefPowMod(n - 1, kk) * 16) % kk

\* the table holds 1, 2, 4, ... in entries 0 .. h
ConsecutivePowers(t, h) ==
  /\ h \in 0 .. TblLen - 1
  /\ t[0] = 1
  /\ \A i \in 1 .. h : t[i] = 2 * t[i - 1]

FreshTable == [i \in 0 .. TblLen - 1 |-> 0]
StaticsNow == Statics(init, pwrtbl, highestpwrtblpwr)

\* ------------------------------------------------- idle values of the groups
StaticsFresh == init = 0 /\ pwrtbl = FreshTable /\ highestpwrtblpwr = 0
SeriesIdle ==
  /\ noOfThreads = 0 /\ d = 0 /\ j = 1 /\ pc = "idle" /\ k = 0 /\ s = 0
  /\ i1 = 0 /\ i2 = 0 /\ threadResults = <<>> /\ workers = <<>> /\ term = 0
HistoryIdle ==
  /\ evals = <<>> /\ minExp = 0 /\ maxExp = 0 /\ folds = <<>>
  /\ initBy = "none" /\ ub = FALSE /\ brk = FALSE
  /\ roundK = 0 /\ roundS = 0 /\ leftK = 0
CallIdle == en = 0 /\ ek = 0 /\ er = 0
RenderIdle ==
  /\ sj = <<>> /\ result = 0 /\ pidec = 0 /\ hexIn = 0 /\ out = <<>> /\ hi = 0

\* ------------------------------------------------------- SpecExpo: expoMod
\* Calls of expoMod, one after another in one thread, with any exponents
\* 1..MaxN and moduli 1..MaxK; the statics persist from call to call.
InitExpo ==
  StaticsFresh /\ SeriesIdle /\ HistoryIdle /\ CallIdle /\ RenderIdle

ExpoCall ==
  \E n \in 1 .. MaxN, kk \in 1 .. MaxK :
    \E c \in {expoMod(StaticsNow, n, kk)} :
      /\ ~ub
      /\ init' = c.st.init
      /\ pwrtbl' = c.st.pwrtbl
      /\ highestpwrtblpwr' = c.st.highestpwrtblpwr
      /\ en' = n /\ ek' = kk /\ er' = c.r
      /\ ub' = c.oob
      /\ maxExp' = IF n > maxExp THEN n ELSE maxExp
      /\ UNCHANGED <<series, render, evals, minExp, folds, initBy, brk, roundK, roundS, leftK>>

NextExpo == ExpoCall
SpecExpo == InitExpo /\ [][NextExpo]_vars

\* C2: a call expoMod(n, k) with n >= 1, k >= 1, made when the table reaches a
\* power >= n, returns exactly 16^n mod k (so a value below k).
C2_ExpoModExact ==
  (en >= 1 /\ pwrtbl[highestpwrtblpwr] >= en) =>
    (~ub /\ er = RefPowMod(en, ek) /\ er >= 0 /\ er < ek)

\* a later call (the table built by an earlier, larger exponent) with an
\* exponent that is no power of two and a result that is not trivial
C2_Witness ==
  /\ en = 11 /\ ek = 7 /\ maxExp = 20 /\ ~ub
  /\ er = 4


\* ------------------------------------------------------ SpecCalc: bbpfCalc
\* sample values of a series sum in [0,1), the largest grid value included
SGrid == {(i * Scale) \div CalcSteps : i \in 0 .. CalcSteps - 1} \cup {Scale - 1}

\* line 137: 4.*S1 - 2.*S4 - S5 - S6
Combine(sv) == 4 * sv[1] - 2 * sv[4] - sv[5] - sv[6]

\* static_cast<int>(x): the integer part, rounded toward zero
TruncInt(x) == IF x >= 0 THEN x \div Scale ELSE -((-x) \div Scale)

\* line 138 with the "+ 1." left out
NormaliseNoAdd(x) == x - TruncInt(x) * Scale

\* line 138: result = result - static_cast<int>(result) + 1.
Normalise(x) == x - TruncInt(x) * Scale + Scale

InitCalc ==
  /\ StaticsFresh /\ SeriesIdle /\ HistoryIdle /\ CallIdle
  /\ sj \in [JSet -> SGrid]
  /\ result = 0 /\ pidec = 0 /\ hexIn = 0 /\ out = <<>> /\ hi = 0

\* lines 133-140, given the four series values
bbpfCalc ==
  /\ pc = "idle"
  /\ sj # <<>>
  /\ result' = Normalise(Combine(sj))
  /\ pidec' = Normalise(Combine(sj))
  /\ pc' = "calcdone"
  /\ UNCHANGED <<statics, history, call, sj, hexIn, out, hi>>
  /\ UNCHANGED <<noOfThreads, d, j, k, s, i1, i2, threadResults, workers, term>>

NextCalc == bbpfCalc
SpecCalc == InitCalc /\ [][NextCalc]_vars

\* C6 as claimed: the stored value lies in [0,1) and equals the combination
\* mod 1, 1 being added only when the raw combination is negative.
C6_AsClaimed ==
  pc = "calcdone" =>
    /\ pidec >= 0 /\ pidec < Scale
    /\ pidec = Combine(sj) % Scale

\* C6 amended: 1 is added always, after the integer part is subtracted: the
\* stored value lies in (0,2), is congruent to the combination mod 1, lies in
\* [1,2) when the raw combination is >= 0 and in (0,1] when it is negative.
C6_Amended ==
  pc = "calcdone" =>
    /\ pidec > 0 /\ pidec < 2 * Scale
    /\ pidec % Scale = Combine(sj) % Scale
    /\ Combine(sj) >= 0 => pidec >= Scale
    /\ Combine(sj) < 0 => pidec <= Scale

\* a non-negative raw combination, stored as 1 + its fraction
C6_Witness ==
  /\ pc = "calcdone" /\ Combine(sj) > Scale
  /\ pidec = Scale + (Combine(sj) % Scale) /\ pidec > Scale

\* ----------------------------------------------------------- SpecHex: toHex
\* line 144: char hexNumbers[] = "0123456789ABCDEF" (17 chars with the NUL)
hexNumbers ==
  <<"0", "1", "2", "3", "4", "5", "6", "7", "8", "9",
    "A", "B", "C", "D", "E", "F", "NUL">>

\* std::floor(x) of a fixed-point value
Floor(x) == (x \div Scale) * Scale

\* line 148 with the floor left out
HexAdvanceNoFloor(x) == 16 * x

\* line 148: *in = 16.0 * (*in - std::floor(*in))
HexAdvance(x) == 16 * (x - Floor(x))

\* line 149: static_cast<int>(*in), the index into hexNumbers
HexIndex(x) == TruncInt(x)

\* char hexOutput[] = "000000000" (line 161)
InitHex ==
  /\ StaticsFresh /\ SeriesIdle /\ HistoryIdle /\ CallIdle
  /\ sj = <<>> /\ result = 0
  /\ pidec \in 1 .. 2 * Scale - 1
  /\ hexIn = pidec
  /\ out = [i \in 1 .. LastHexIndex + 1 |-> "0"]
  /\ hi = 0

\* lines 146-150: one iteration of the loop, i = hi
toHexStep ==
  /\ out # <<>>
  /\ hi <= LastHexIndex
  /\ ~ub
  /\ \E x \in {HexAdvance(pidec)} :
       /\ pidec' = x
       /\ IF HexIndex(x) \in 0 .. 16
            THEN out' = [out EXCEPT ![hi + 1] = hexNumbers[HexIndex(x) + 1]] /\ ub' = FALSE
            ELSE out' = out /\ ub' = TRUE
  /\ hi' = hi + 1
  /\ UNCHANGED <<statics, series, call, sj, result, hexIn>>
  /\ UNCHANGED <<evals, minExp, maxExp, folds, initBy, brk, roundK, roundS, leftK>>

NextHex == toHexStep
SpecHex == InitHex /\ [][NextHex]_vars

\* the i-th base-16 digit (i >= 1) of the fractional part of x0, read off the
\* positional representation
RefDigit(x0, i) ==
  IF i > FracDigits THEN 0 ELSE ((x0 % Scale) \div (16 ^ (FracDigits - i))) % 16

\* 16^i times x0, fractional part: what is left of x0 after i digits
RefRest(x0, i) ==
  IF i >= FracDigits THEN 0 ELSE ((x0 % Scale) * 16 ^ i) % Scale

\* C3: toHex writes out[0..8], the i-th character being the hexadecimal
\* character of the i-th base-16 digit of the fractional part of its input;
\* every index into hexNumbers is in 0..15; x is updated in place at each step.
C3_ToHexDigits ==
  out # <<>> =>
    /\ ~ub
    /\ Len(out) = LastHexIndex + 1
    /\ hi \in 0 .. LastHexIndex + 1
    /\ \A i \in 1 .. hi : out[i] = hexNumbers[RefDigit(hexIn, i) + 1]
    /\ \A i \in 1 .. hi : RefDigit(hexIn, i) \in 0 .. 15
    /\ hi >= 1 => /\ HexIndex(pidec) \in 0 .. 15
                  /\ pidec = 16 * RefRest(hexIn, hi - 1)

\* all nine characters written, for an input in [1,2) with non-zero digits
C3_Witness ==
  /\ hi = LastHexIndex + 1 /\ hexIn = Scale + 16 * 10 + 11
  /\ out[1] = "A" /\ out[2] = "B" /\ out[9] = "0"

\* ------------------------------------------------ right portion of bbpf16jsd
\* x / 16^n, rounded down
RECURSIVE Div16(_, _)
Div16(x, n) == IF n = 0 \/ x = 0 THEN x ELSE Div16(x \div 16, n - 1)

\* line 125: term < 1e-17, for term = 16^(-m) / den with m >= 0 and den an int.
\* term < 1e-17 iff 10^17 / 16^m < den iff floor(10^17 / 16^m) < den.  For
\* m <= 6 the left side exceeds every int; for m >= 7 it is
\* floor(ThreshInvQ7 / 16^(m-7)).
TermBelow(m, den) == m >= 7 /\ Div16(ThreshInvQ7, m - 7) < den

\* lines 122-124: pow(16, d-k) / (8*k+j) on the fixed-point grid
TermValue(m, den) == Div16(Scale, m) \div den

\* a loop bound typed as d+10
RightLimitShort(dd) == dd + 10

\* line 120: k <= d+100
RightLimit(dd) == dd + RightBound

\* s = s - static_cast<int>(s), for s >= 0
Frac(x) == x - TruncInt(x) * Scale

\* lines 120-128: one iteration of the right-portion loop, or its exit
RightStep ==
  /\ pc = "right"
  /\ IF k > RightLimit(d)
       THEN /\ pc' = "done" /\ brk' = FALSE
            /\ UNCHANGED <<k, s, term>>
       ELSE IF TermBelow(k - d, 8 * k + j)
         THEN /\ pc' = "done" /\ brk' = TRUE
              /\ term' = TermValue(k - d, 8 * k + j)
              /\ UNCHANGED <<k, s>>
         ELSE /\ term' = TermValue(k - d, 8 * k + j)
              /\ s' = Frac(s + TermValue(k - d, 8 * k + j))
              /\ k' = k + 1
              /\ UNCHANGED <<pc, brk>>
  /\ UNCHANGED <<statics, call, render>>
  /\ UNCHANGED <<noOfThreads, d, j, i1, i2, threadResults, workers>>
  /\ UNCHANGED <<evals, minExp, maxExp, folds, initBy, ub, roundK, roundS, leftK>>

\* the right portion alone, entered with k = d, for the small positions and
\* for the largest position the program documents
InitRight ==
  /\ StaticsFresh /\ HistoryIdle /\ CallIdle /\ RenderIdle
  /\ d \in (0 .. MaxD) \cup {MaxPlace \div 100, MaxPlace - 1}
  /\ j \in JSet
  /\ noOfThreads = 1 /\ pc = "right" /\ k = d /\ s = 0
  /\ i1 = 0 /\ i2 = 0 /\ threadResults = <<>> /\ workers = <<>> /\ term = 0

NextRight == RightStep
SpecRight == InitRight /\ [][NextRight]_vars

\* C5: the right-portion loop ends by the break, at some k <= d+100; the term
\* at that k is < 1e-17 and every term before it was >= 1e-17.
C5_RightEndsByThreshold ==
  pc = "done" =>
    /\ brk
    /\ k >= d /\ k <= d + RightBound
    /\ TermBelow(k - d, 8 * k + j)
    /\ \A kk \in d .. k - 1 : ~TermBelow(kk - d, 8 * kk + j)

\* the loop has ended at the largest documented position, after 8 terms
C5_Witness ==
  /\ pc = "done" /\ brk /\ d = MaxPlace - 1 /\ k = d + 8 /\ j = 6


\* ------------------------------------------- bbpf16jsd: the left portion
\* line 157: noOfThreads = (argc >= 3) && (atoi(argv[2]) > 0)
\*   ? atoi(argv[2]) : std::thread::hardware_concurrency();
\* arg = 0 stands for no argument or one that is not positive; hw is what
\* hardware_concurrency() returns, 0 when the count is not computable.
ThreadCount(arg, hw) == IF arg > 0 THEN arg ELSE hw

\* line 96: k + (100000*noOfThreads) < d, computed and compared in uint
RoundFits(kk, n, dd) ==
  ((kk + ChunkTerms * n) % UintMod) < (dd % UintMod)

\* lines 78 and 113: numerator / denominator on the fixed-point grid
TermOf(r, den) == (r * Scale) \div den

\* One call of expoMod from the current statics, with what may follow it.  A
\* call that leaves the table (oob) is undefined behaviour: the process may
\* die there, or go on with a meaningless value.
CallOutcomes(n, den) ==
  LET c == expoMod(StaticsNow, n, den)
  IN IF c.oob
       THEN {[st |-> c.st, r |-> 0, crash |-> TRUE, oob |-> TRUE]}
              \cup {[st |-> c.st, r |-> g, crash |-> FALSE, oob |-> TRUE] :
                      g \in {0, den - 1}}
       ELSE {[st |-> c.st, r |-> c.r, crash |-> FALSE, oob |-> FALSE]}

\* the term index i has been evaluated once more
Bump(f, i) == IF i \in DOMAIN f THEN [f EXCEPT ![i] = @ + 1] ELSE f @@ (i :> 1)

Min(a, b) == IF a < b THEN a ELSE b
Max(a, b) == IF a > b THEN a ELSE b

\* what every evaluation of a term kk records, by whoever makes the call
Evaluated(kk, o) ==
  /\ init' = o.st.init
  /\ pwrtbl' = o.st.pwrtbl
  /\ highestpwrtblpwr' = o.st.highestpwrtblpwr
  /\ evals' = Bump(evals, kk)
  /\ minExp' = Min(minExp, d - kk)
  /\ maxExp' = Max(maxExp, d - kk)
  /\ ub' = (ub \/ o.oob)

\* new std::thread[noOfThreads], new double[noOfThreads] (lines 90-91)
NoWorker == [st |-> "none", k |-> 0, kinit |-> 0, s |-> 0]
Unset == -1

InitSeries(threadCounts) ==
  /\ StaticsFresh /\ CallIdle /\ RenderIdle
  /\ noOfThreads \in threadCounts
  /\ d \in 0 .. MaxD
  /\ j \in JSet
  /\ pc = "left" /\ k = 0 /\ s = 0 /\ i1 = 0 /\ i2 = 0 /\ term = 0
  /\ threadResults = [w \in 0 .. noOfThreads - 1 |-> Unset]
  /\ workers = [w \in 0 .. noOfThreads - 1 |-> NoWorker]
  /\ evals = <<>> /\ minExp = d + 1 /\ maxExp = 0 /\ folds = <<>>
  /\ initBy = "none" /\ ub = FALSE /\ brk = FALSE
  /\ roundK = 0 /\ roundS = 0 /\ leftK = 0

\* lines 94-97: the loop runs and the test of line 96 holds: a round starts
StartRound ==
  /\ pc = "left" /\ k < d
  /\ RoundFits(k, noOfThreads, d)
  /\ pc' = "spawn" /\ i1' = 0
  /\ roundK' = k /\ roundS' = s /\ folds' = <<>>
  /\ UNCHANGED <<statics, call, render, noOfThreads, d, j, k, s, i2>>
  /\ UNCHANGED <<threadResults, workers, term>>
  /\ UNCHANGED <<evals, minExp, maxExp, initBy, ub, brk, leftK>>

\* lines 98-102: one iteration of the loop that creates the threads
Spawn ==
  /\ pc = "spawn" /\ i1 < noOfThreads
  /\ workers' = [workers EXCEPT
                   ![i1] = [st |-> "running", k |-> k, kinit |-> k, s |-> 0]]
  /\ k' = k + ChunkTerms
  /\ i1' = i1 + 1
  /\ UNCHANGED <<statics, call, render, history>>
  /\ UNCHANGED <<noOfThreads, d, j, pc, s, i2, threadResults, term>>

\* line 98 fails, line 103 starts: int i2 = noOfThreads-1
SpawnDone ==
  /\ pc = "spawn" /\ i1 >= noOfThreads
  /\ pc' = "join" /\ i2' = noOfThreads - 1
  /\ UNCHANGED <<statics, call, render, history>>
  /\ UNCHANGED <<noOfThreads, d, j, k, s, i1, threadResults, workers, term>>

\* lines 73-80 of leftPortionThreaded: one iteration of worker w
WorkerTerm(w) ==
  /\ pc \in {"spawn", "join"}
  /\ workers[w].st = "running"
  /\ workers[w].k < workers[w].kinit + ChunkTerms
  /\ \E o \in CallOutcomes(d - workers[w].k, 8 * workers[w].k + j) :
       /\ Evaluated(workers[w].k, o)
       /\ IF o.crash
            THEN pc' = "crashed" /\ workers' = workers
            ELSE /\ pc' = pc
                 /\ workers' = [workers EXCEPT
                      ![w].s = Frac(@ + TermOf(o.r, 8 * workers[w].k + j)),
                      ![w].k = @ + 1]
  /\ initBy' = IF init = 0 THEN "worker" ELSE initBy
  /\ UNCHANGED <<call, render, folds, brk, roundK, roundS, leftK>>
  /\ UNCHANGED <<noOfThreads, d, j, k, s, i1, i2, threadResults, term>>

\* line 81: the loop of worker w has ended: *threadResult = s
WorkerFinish(w) ==
  /\ pc \in {"spawn", "join"}
  /\ workers[w].st = "running"
  /\ workers[w].k >= workers[w].kinit + ChunkTerms
  /\ threadResults' = [threadResults EXCEPT ![w] = workers[w].s]
  /\ workers' = [workers EXCEPT ![w].st = "finished"]
  /\ UNCHANGED <<statics, call, render, history>>
  /\ UNCHANGED <<noOfThreads, d, j, pc, k, s, i1, i2, term>>

\* the fold of lines 106-107 without the join of line 105
JoinFoldNoWait ==
  /\ pc = "join" /\ i2 > -1
  /\ s' = Frac(s + threadResults[i2])
  /\ folds' = Append(folds, [slot |-> i2, val |-> threadResults[i2]])
  /\ i2' = i2 - 1
  /\ UNCHANGED <<statics, call, render, workers>>
  /\ UNCHANGED <<noOfThreads, d, j, pc, k, i1, threadResults, term>>
  /\ UNCHANGED <<evals, minExp, maxExp, initBy, ub, brk, roundK, roundS, leftK>>

\* lines 103-108: one iteration of the loop that collects: join() returns once
\* thread i2 has completed, then its result is folded into s
JoinFold ==
  /\ pc = "join" /\ i2 > -1
  /\ workers[i2].st = "finished"
  /\ workers' = [workers EXCEPT ![i2].st = "joined"]
  /\ s' = Frac(s + threadResults[i2])
  /\ folds' = Append(folds, [slot |-> i2, val |-> threadResults[i2]])
  /\ i2' = i2 - 1
  /\ UNCHANGED <<statics, call, render>>
  /\ UNCHANGED <<noOfThreads, d, j, pc, k, i1, threadResults, term>>
  /\ UNCHANGED <<evals, minExp, maxExp, initBy, ub, brk, roundK, roundS, leftK>>

\* line 103 fails: back to the test of line 94
JoinDone ==
  /\ pc = "join" /\ i2 <= -1
  /\ pc' = "left"
  /\ UNCHANGED <<statics, call, render, history>>
  /\ UNCHANGED <<noOfThreads, d, j, k, s, i1, i2, threadResults, workers, term>>

\* lines 109-117: the test of line 96 fails: one term in the calling thread
SeqTerm ==
  /\ pc = "left" /\ k < d
  /\ ~RoundFits(k, noOfThreads, d)
  /\ \E o \in CallOutcomes(d - k, 8 * k + j) :
       /\ Evaluated(k, o)
       /\ IF o.crash
            THEN pc' = "crashed" /\ UNCHANGED <<k, s, term>>
            ELSE /\ pc' = pc
                 /\ term' = TermOf(o.r, 8 * k + j)
                 /\ s' = Frac(s + TermOf(o.r, 8 * k + j))
                 /\ k' = k + 1
  /\ initBy' = IF init = 0 THEN "main" ELSE initBy
  /\ UNCHANGED <<call, render, folds, brk, roundK, roundS, leftK>>
  /\ UNCHANGED <<noOfThreads, d, j, i1, i2, threadResults, workers>>

\* line 94 fails: the left portion is over; line 120: int k = d
LeftDone ==
  /\ pc = "left" /\ k >= d
  /\ pc' = "right"
  /\ leftK' = k
  /\ k' = d
  /\ UNCHANGED <<statics, call, render>>
  /\ UNCHANGED <<noOfThreads, d, j, s, i1, i2, threadResults, workers, term>>
  /\ UNCHANGED <<evals, minExp, maxExp, folds, initBy, ub, brk, roundK, roundS>>

NextSeries ==
  \/ StartRound
  \/ Spawn
  \/ SpawnDone
  \/ \E w \in DOMAIN workers : WorkerTerm(w)
  \/ \E w \in DOMAIN workers : WorkerFinish(w)
  \/ JoinFold
  \/ JoinDone
  \/ SeqTerm
  \/ LeftDone
  \/ RightStep

\* Spec: the first series of a process, from the start of main to the return
\* of bbpf16jsd, for every thread count main can set that keeps
\* 100000*noOfThreads + d inside uint.
Init ==
  \E arg \in 0 .. MaxThreads, hw \in 0 .. MaxThreads :
    InitSeries({ThreadCount(arg, hw)})
Next == NextSeries
Spec == Init /\ [][Next]_vars

\* lines 69-82 of leftPortionThreaded from term kk up to kend, one call of
\* expoMod after the other from the statics st; a call that leaves the table
\* goes on with the value 0 or, with stop, ends the run there.
RECURSIVE ChunkRun(_, _, _, _, _, _)
ChunkRun(st, kk, kend, acc, bad, stop) ==
  IF kk >= kend \/ (bad /\ stop)
    THEN [st |-> st, s |-> acc, k |-> kk, oob |-> bad]
    ELSE LET c == expoMod(st, d - kk, 8 * kk + j)
         IN ChunkRun(c.st, kk + 1, kend,
                     Frac(acc + TermOf(c.r, 8 * kk + j)), bad \/ c.oob, stop)

\* the term indices a .. b-1 have been evaluated once more
RECURSIVE BumpRange(_, _, _)
BumpRange(f, a, b) == IF a >= b THEN f ELSE BumpRange(Bump(f, a), a + 1, b)

\* what a run of worker terms kinit .. c.k-1 records
ChunkEvaluated(kinit, c) ==
  /\ init' = c.st.init
  /\ pwrtbl' = c.st.pwrtbl
  /\ highestpwrtblpwr' = c.st.highestpwrtblpwr
  /\ evals' = BumpRange(evals, kinit, c.k)
  /\ minExp' = Min(minExp, d - (c.k - 1))
  /\ maxExp' = Max(maxExp, d - kinit)
  /\ ub' = (ub \/ c.oob)
  /\ initBy' = IF init = 0 THEN "worker" ELSE initBy

\* lines 69-82: the whole call of leftPortionThreaded by worker w as one step
WorkerChunk(w) ==
  /\ pc \in {"spawn", "join"}
  /\ workers[w].st = "running"
  /\ \/ \E c \in {ChunkRun(StaticsNow, workers[w].kinit,
                           workers[w].kinit + ChunkTerms, 0, FALSE, FALSE)} :
          /\ ChunkEvaluated(workers[w].kinit, c)
          /\ workers' = [workers EXCEPT
                           ![w] = [st |-> "finished", k |-> c.k,
                                   kinit |-> workers[w].kinit, s |-> c.s]]
          /\ threadResults' = [threadResults EXCEPT ![w] = c.s]
          /\ pc' = pc
     \/ \E c \in {ChunkRun(StaticsNow, workers[w].kinit,
                           workers[w].kinit + ChunkTerms, 0, FALSE, TRUE)} :
          /\ c.oob
          /\ ChunkEvaluated(workers[w].kinit, c)
          /\ pc' = "crashed"
          /\ UNCHANGED <<workers, threadResults>>
  /\ UNCHANGED <<call, render, folds, brk, roundK, roundS, leftK>>
  /\ UNCHANGED <<noOfThreads, d, j, k, s, i1, i2, term>>

\* SpecWide: the same program for the thread counts of the command line up to
\* one whose product with the chunk size no longer fits uint; the call of
\* leftPortionThreaded by a worker is one step.
InitWide == InitSeries(1 .. WideThreads)
NextWide ==
  \/ StartRound
  \/ Spawn
  \/ SpawnDone
  \/ \E w \in DOMAIN workers : WorkerChunk(w)
  \/ JoinFold
  \/ JoinDone
  \/ SeqTerm
  \/ LeftDone
  \/ RightStep
SpecWide == InitWide /\ [][NextWide]_vars

\* ------------------------------------------------- the series, by reference
\* term kk of series jj at position dd, from the reference power
RefTerm(kk, jj, dd) == (RefPowMod(dd - kk, 8 * kk + jj) * Scale) \div (8 * kk + jj)

\* terms kk .. kend-1 added one after the other to acc
RECURSIVE RefRange(_, _, _, _, _)
RefRange(acc, kk, kend, jj, dd) ==
  IF kk >= kend THEN acc
  ELSE RefRange(Frac(acc + RefTerm(kk, jj, dd)), kk + 1, kend, jj, dd)

\* one round from k0: the chunk sums folded into acc from slot w down to 0
RECURSIVE RefRound(_, _, _, _, _)
RefRound(acc, k0, w, jj, dd) ==
  IF w < 0 THEN acc
  ELSE RefRound(
         Frac(acc + RefRange(0, k0 + w * ChunkTerms, k0 + (w + 1) * ChunkTerms, jj, dd)),
         k0, w - 1, jj, dd)

\* the left portion with n >= 1 workers, ChunkTerms * n + dd inside uint
RECURSIVE RefLeft(_, _, _, _, _)
RefLeft(acc, kk, jj, dd, n) ==
  IF kk >= dd THEN acc
  ELSE IF kk + ChunkTerms * n < dd
    THEN RefLeft(RefRound(acc, kk, n - 1, jj, dd), kk + ChunkTerms * n, jj, dd, n)
    ELSE RefLeft(Frac(acc + RefTerm(kk, jj, dd)), kk + 1, jj, dd, n)

\* the right portion from kk
RECURSIVE RefRight(_, _, _, _)
RefRight(acc, kk, jj, dd) ==
  IF kk > dd + RightBound \/ TermBelow(kk - dd, 8 * kk + jj) THEN acc
  ELSE RefRight(Frac(acc + TermValue(kk - dd, 8 * kk + jj)), kk + 1, jj, dd)

RefSeries(jj, dd, n) == RefRight(RefLeft(0, 0, jj, dd, n), dd, jj, dd)

\* the running sum after the folds fs, from acc
RECURSIVE FoldAll(_, _, _)
FoldAll(acc, fs, i) ==
  IF i > Len(fs) THEN acc ELSE FoldAll(Frac(acc + fs[i].val), fs, i + 1)

\* ------------------------------------------------------------------ claims
\* C1 as claimed: for every d and every worker count W >= 1, the left portion
\* evaluates every term index 0..d-1 exactly once and no index >= d, so that
\* every exponent passed to expoMod is >= 1.
C1_AsClaimed ==
  noOfThreads >= 1 =>
    /\ \A i \in DOMAIN evals : i < d /\ evals[i] = 1
    /\ minExp >= 1
    /\ pc \in {"right", "done"} =>
         \A i \in 0 .. d - 1 : i \in DOMAIN evals /\ evals[i] = 1

\* C1 where 100000*W + d fits uint (checked under Spec): the partition is exact.
C1_WithinUint ==
  (noOfThreads >= 1 /\ ChunkTerms * noOfThreads + d < UintMod) =>
    /\ \A i \in DOMAIN evals : i < d /\ evals[i] = 1
    /\ minExp >= 1
    /\ pc \in {"right", "done"} =>
         \A i \in 0 .. d - 1 : i \in DOMAIN evals /\ evals[i] = 1

\* C4 as claimed: the computation with a given d and worker count has one
\* output, whatever the interleaving and completion order of the workers: it
\* ends, with the sum that the partition and the fold order determine.
C4_AsClaimed ==
  /\ pc # "crashed"
  /\ pc = "done" => s = RefSeries(j, d, noOfThreads)

\* C7 as claimed: the table is fully built before any worker thread begins a
\* chunk evaluation, and no worker thread executes the initialisation code.
C7_AsClaimed ==
  /\ initBy # "worker"
  /\ \A w \in DOMAIN workers : workers[w].st = "running" => init = 1

\* C8 as claimed: after any sequence of calls with exponents >= 1 the table
\* holds 1, 2, 4, ... up to a power >= the largest exponent requested so far,
\* and no scan leaves the array.
C8_AsClaimed ==
  /\ ~ub
  /\ maxExp >= 1 =>
       /\ ConsecutivePowers(pwrtbl, highestpwrtblpwr)
       /\ pwrtbl[highestpwrtblpwr] >= maxExp

C10_AsClaimed ==
  /\ pc = "join" => (noOfThreads >= 1 /\ k > roundK)
  /\ pc \in {"right", "done"} => leftK = d

=============================================================================
